---- MODULE Spec2Model ----
(***************************************************************************)
(* Maison Cilia booking backend: the slot reservation protocol.           *)
(*                                                                         *)
(* Two variants of the same service are modelled side by side:            *)
(*   "store" : src/server.js         (mongoose / MongoDB collection)      *)
(*   "file"  : src/unnamed/part_000  (data.json rewritten wholesale)      *)
(* The variable `variant` is fixed by Init and selects which handlers run. *)
(*                                                                         *)
(* A request handler is cut at its awaits: one action is the completion   *)
(* of the awaited call together with the continuation that runs up to the *)
(* next await (or to the response).  XxxReq(r, ...) is a handler with the *)
(* request's header and body fields as parameters, Xxx(r) the handler for *)
(* any request.                                                            *)
(***************************************************************************)
EXTENDS Integers, Sequences, FiniteSets, TLC

(***************************************************************************)
(* Bounds of the model.                                                    *)
(***************************************************************************)
\* number of connections that can carry a request at the same time
NumReq == 2
\* most slots the data.json array is allowed to grow to
MaxSlots == 2

(***************************************************************************)
(* Values.                                                                 *)
(***************************************************************************)
\* a field that is missing from the JSON body / a header that is absent
Undef == "undefined"

Dates == {"2024-05-01", "2024-05-02"}
Times == {"10:00"}

\* what a request body can carry for date and for time
BodyDates == Dates \cup {Undef}
BodyTimes == Times \cup {Undef}

\* a falsiness test that takes a missing value for a value
FalsyEmpty(x) == x = ""

\* JavaScript falsiness of a string-or-undefined value: !x
Falsy(x) == x \in {Undef, ""}

\* the client part of a reservation intent
Ana == [firstName |-> "Ana", lastName |-> "B", email |-> "a@b.com", service |-> "Manicure"]
Bob == [firstName |-> "Bob", lastName |-> "C", email |-> Undef, service |-> "Pedicure"]
NoFields == [firstName |-> Undef, lastName |-> Undef, email |-> Undef, service |-> Undef]

Intents == {Ana, Bob}

\* the configured ADMIN_PASSWORD and what an authorization header can hold
AdminPassword == "secret"
Auths == {AdminPassword, "wrong", Undef}

Reqs == 1..NumReq

\* _id values: one per document that can be stored plus one per handler
\* that can still hold a document it read
Ids == 1..(Cardinality(Dates \X Times) + NumReq)

\* a slot as persisted; client is {} (absent / null) or {c}
Doc(id, date, time, booked, client) ==
  [id |-> id, date |-> date, time |-> time, booked |-> booked, client |-> client]

\* the value of `slot` when the handler holds no document
NoSlot == Doc(0, Undef, Undef, FALSE, {})

Body(date, time, c) == [date |-> date, time |-> time, client |-> c]
NoBody == Body(Undef, Undef, NoFields)

\* response: status 0 is "nothing sent yet for the request on this connection"
Resp(status, body) == [status |-> status, body |-> body]
NoResp == Resp(0, "")

VARIABLES
  variant,  \* "store" or "file"
  db,       \* store variant: the Slot collection, a set of documents
  file,     \* file variant: data.json's slots array
  pc,       \* per connection: where its handler is suspended, or "idle"
  body,     \* per connection: req.body of the request being handled
  slot,     \* per connection: the `slot` document held by /confirm
  resp      \* per connection: the response to its latest request

vars == <<variant, db, file, pc, body, slot, resp>>

Init ==
  /\ variant \in {"store", "file"}
  /\ db = {}
  /\ file = <<>>
  /\ pc = [r \in Reqs |-> "idle"]
  /\ body = [r \in Reqs |-> NoBody]
  /\ slot = [r \in Reqs |-> NoSlot]
  /\ resp = [r \in Reqs |-> NoResp]

(***************************************************************************)
(* Shared pieces of the handlers.                                          *)
(***************************************************************************)
\* express hands a request on an idle connection to its route handler
Idle(r) == pc[r] = "idle"

\* res.status(s).json(b): the handler is over, its locals are gone
Respond(r, response) ==
  /\ pc' = [pc EXCEPT ![r] = "idle"]
  /\ body' = [body EXCEPT ![r] = NoBody]
  /\ slot' = [slot EXCEPT ![r] = NoSlot]
  /\ resp' = [resp EXCEPT ![r] = response]

\* the handler suspends at an await, nothing sent yet for this request
Await(r, at, b, s) ==
  /\ pc' = [pc EXCEPT ![r] = at]
  /\ body' = [body EXCEPT ![r] = b]
  /\ slot' = [slot EXCEPT ![r] = s]
  /\ resp' = [resp EXCEPT ![r] = NoResp]

Success == Resp(200, "success")
Url == Resp(200, "url")
\* res.json(slots): the array sent is ListSlots of the state it is sent from
Slots == Resp(200, "slots")
Unavailable == Resp(400, "Creneau indisponible")
MissingData == Resp(400, "Donnees manquantes")
MissingDateTime == Resp(400, "Date/heure manquantes")
AlreadyExists == Resp(400, "Creneau deja existant")
Denied == Resp(401, "Acces refuse")
StripeError == Resp(500, "Erreur Stripe")
ConfirmError == Resp(500, "Erreur confirmation")

\* a gate that refuses only a request with no authorization header
UnauthorizedAbsent(auth) == auth = Undef

\* req.headers.authorization !== ADMIN_PASSWORD
Unauthorized(auth) == auth # AdminPassword

\* a filter that leaves the date out
MatchesTime(s, date, time) == s.time = time

\* the filter { date, time } of findOne / deleteOne / Array.find / Array.filter
Matches(s, date, time) == s.date = date /\ s.time = time

\* a check that never finds the slot booked
TakenNever(s) == FALSE

\* slot.booked, the second half of the check !slot || slot.booked
Taken(s) == s.booked

\* a confirm that leaves the slot as it found it
NotMarked(s, c) == s

\* a confirm that marks the slot booked and leaves the client out
BookedNoClient(s, c) == [s EXCEPT !.booked = TRUE]

\* slot.booked = true; slot.client = { firstName, lastName, email, service }
Booked(s, c) == [s EXCEPT !.booked = TRUE, !.client = {c}]

\* a mail error that is not caught next to sendMail and reaches the 500
AfterMailThrows(at) == IF at = "cf_mailerr" THEN ConfirmError ELSE Success

\* the response of /confirm once sendMail has settled at `at`: a mail
\* error is caught, logged and swallowed
AfterMail(at) == Success

(***************************************************************************)
(* Store variant (src/server.js).                                          *)
(***************************************************************************)
\* binary string order of the values date and time are drawn from
StrOrder == <<"", "10:00", "2024-05-01", "2024-05-02", Undef>>
Rank(s) == CHOOSE i \in 1..Len(StrOrder) : StrOrder[i] = s

\* .sort({ date: 1, time: 1 })
Before(a, b) ==
  \/ Rank(a.date) < Rank(b.date)
  \/ a.date = b.date /\ Rank(a.time) < Rank(b.time)

\* Slot.find().sort({ date: 1, time: 1 })
SortedSlots(S) ==
  CHOOSE q \in [1..Cardinality(S) -> S] :
    /\ \A i, j \in 1..Cardinality(S) : i # j => q[i] # q[j]
    /\ \A i, j \in 1..Cardinality(S) : i < j => ~Before(q[j], q[i])

\* a fresh ObjectId: one no stored document and no handler holds
NewId ==
  CHOOSE i \in Ids :
    /\ \A d \in db : d.id # i
    /\ \A r \in Reqs : slot[r].id # i
    /\ \A j \in Ids : j < i => (\E d \in db : d.id = j) \/ (\E r \in Reqs : slot[r].id = j)

\* Slot.findOne({ date, time }) : the matching documents (at most one)
FindOne(date, time) == {d \in db : Matches(d, date, time)}

\* the unique index on (date, time) refuses an insert with a stored key
DuplicateKey(date, time) == FindOne(date, time) # {}

\* GET /calendar: the handler calls Slot.find()
Calendar(r) ==
  /\ variant = "store" /\ Idle(r)
  /\ Await(r, "cal_find", NoBody, NoSlot)
  /\ UNCHANGED <<variant, db, file>>

\* the find completes and the sorted slots are sent
CalendarFind(r) ==
  /\ variant = "store" /\ pc[r] = "cal_find"
  /\ Respond(r, Slots)
  /\ UNCHANGED <<variant, db, file>>

\* POST /create-checkout: field validation, then stripe.checkout.sessions.create
CreateCheckoutReq(r, date, time, c) ==
  /\ variant = "store" /\ Idle(r)
  /\ IF \/ Falsy(date) \/ Falsy(time)
        \/ Falsy(c.firstName) \/ Falsy(c.lastName) \/ Falsy(c.service)
     THEN Respond(r, MissingData)
     ELSE Await(r, "co_stripe", Body(date, time, c), NoSlot)
  /\ UNCHANGED <<variant, db, file>>

CreateCheckout(r) ==
  \E date \in BodyDates, time \in BodyTimes, c \in Intents :
    CreateCheckoutReq(r, date, time, c)

\* the provider answers with a session, or the call throws
CheckoutSession(r) ==
  /\ variant = "store" /\ pc[r] = "co_stripe"
  /\ \E ok \in BOOLEAN : Respond(r, IF ok THEN Url ELSE StripeError)
  /\ UNCHANGED <<variant, db, file>>

\* POST /confirm: the handler calls Slot.findOne({ date, time })
ConfirmReq(r, date, time, c) ==
  /\ variant = "store" /\ Idle(r)
  /\ Await(r, "cf_find", Body(date, time, c), NoSlot)
  /\ UNCHANGED <<variant, db, file>>

\* the store is queried with the date and the time the body carries
Confirm(r) ==
  \E date \in Dates, time \in Times, c \in Intents : ConfirmReq(r, date, time, c)

\* findOne completes; the handler checks the document it got, marks it
\* booked in memory and calls slot.save()
ConfirmFind(r) ==
  /\ variant = "store" /\ pc[r] = "cf_find"
  /\ LET found == FindOne(body[r].date, body[r].time) IN
       IF found = {} \/ (\E d \in found : Taken(d))
       THEN Respond(r, Unavailable)
       ELSE \E d \in found :
              Await(r, "cf_save", body[r], Booked(d, body[r].client))
  /\ UNCHANGED <<variant, db, file>>

\* slot.save() of a document that was read: updateOne({ _id }, { $set:
\* { booked, client } }). The filter is the _id alone, whatever the stored
\* document holds by now.
Save(s) ==
  {IF d.id = s.id THEN [d EXCEPT !.booked = s.booked, !.client = s.client] ELSE d : d \in db}

\* save() completes: no document with that _id makes it throw, and the
\* outer catch answers 500. Otherwise the mail is handed to the transport
\* when there is an email, or the response is sent.
ConfirmSave(r) ==
  /\ variant = "store" /\ pc[r] = "cf_save"
  /\ IF \E d \in db : d.id = slot[r].id
     THEN /\ db' = Save(slot[r])
          /\ IF Falsy(body[r].client.email)
             THEN Respond(r, Success)
             ELSE Await(r, "cf_mail", body[r], slot[r])
     ELSE /\ db' = db
          /\ Respond(r, ConfirmError)
  /\ UNCHANGED <<variant, file>>

\* mailer.sendMail settles: the transport took the mail, or it failed
SendMail(r) ==
  /\ variant = "store" /\ pc[r] = "cf_mail"
  /\ \E ok \in BOOLEAN :
       Await(r, IF ok THEN "cf_sent" ELSE "cf_mailerr", body[r], slot[r])
  /\ UNCHANGED <<variant, db, file>>

\* the handler resumes after sendMail and sends the response
ConfirmDone(r) ==
  /\ variant = "store" /\ pc[r] \in {"cf_sent", "cf_mailerr"}
  /\ Respond(r, AfterMail(pc[r]))
  /\ UNCHANGED <<variant, db, file>>

\* GET /admin/reservations
ReservationsReq(r, auth) ==
  /\ variant = "store" /\ Idle(r)
  /\ IF Unauthorized(auth)
     THEN Respond(r, Denied)
     ELSE Await(r, "ar_find", NoBody, NoSlot)
  /\ UNCHANGED <<variant, db, file>>

Reservations(r) == \E auth \in Auths : ReservationsReq(r, auth)

ReservationsFind(r) ==
  /\ variant = "store" /\ pc[r] = "ar_find"
  /\ Respond(r, Slots)
  /\ UNCHANGED <<variant, db, file>>

\* POST /admin/add-slot: the gate, the validation, then Slot.create
AddSlotReq(r, auth, date, time) ==
  /\ variant = "store" /\ Idle(r)
  /\ IF Unauthorized(auth)
     THEN Respond(r, Denied)
     ELSE IF Falsy(date) \/ Falsy(time)
     THEN Respond(r, MissingDateTime)
     ELSE Await(r, "as_create", Body(date, time, NoFields), NoSlot)
  /\ UNCHANGED <<variant, db, file>>

AddSlot(r) ==
  \E auth \in Auths, date \in BodyDates, time \in BodyTimes : AddSlotReq(r, auth, date, time)

\* Slot.create({ date, time }) completes: inserted with booked false and
\* no client, or refused by the unique index and answered 400 by the catch
AddSlotCreate(r) ==
  /\ variant = "store" /\ pc[r] = "as_create"
  /\ IF DuplicateKey(body[r].date, body[r].time)
     THEN /\ db' = db
          /\ Respond(r, AlreadyExists)
     ELSE /\ db' = db \cup {Doc(NewId, body[r].date, body[r].time, FALSE, {})}
          /\ Respond(r, Success)
  /\ UNCHANGED <<variant, file>>

\* POST /admin/delete-slot
DeleteSlotReq(r, auth, date, time) ==
  /\ variant = "store" /\ Idle(r)
  /\ IF Unauthorized(auth)
     THEN Respond(r, Denied)
     ELSE Await(r, "ad_delete", Body(date, time, NoFields), NoSlot)
  /\ UNCHANGED <<variant, db, file>>

\* the store is queried with the date and the time the body carries
DeleteSlot(r) ==
  \E auth \in Auths, date \in Dates, time \in Times : DeleteSlotReq(r, auth, date, time)

\* Slot.deleteOne({ date, time }) completes
DeleteSlotDelete(r) ==
  /\ variant = "store" /\ pc[r] = "ad_delete"
  /\ db' = db \ FindOne(body[r].date, body[r].time)
  /\ Respond(r, Success)
  /\ UNCHANGED <<variant, file>>

(***************************************************************************)
(* File variant (src/unnamed/part_000).  readData and writeData are        *)
(* synchronous: a handler runs from the request to its first await in one *)
(* step.  Requests to this variant carry a time; a missing field is        *)
(* exercised through date.                                                 *)
(***************************************************************************)
\* JSON.parse(fs.readFileSync(DATA_FILE)).slots
readData == file

\* fs.writeFileSync(DATA_FILE, JSON.stringify(data)): the whole array is
\* rewritten; a field that is undefined is left out of the JSON text and
\* reads back as undefined
writeData(slots) == file' = slots

\* data.slots.find(s => s.date === date && s.time === time): the index of
\* the first match, 0 when there is none
FindIndex(slots, date, time) ==
  IF \E i \in 1..Len(slots) : Matches(slots[i], date, time)
  THEN CHOOSE i \in 1..Len(slots) :
         /\ Matches(slots[i], date, time)
         /\ \A j \in 1..(i - 1) : ~Matches(slots[j], date, time)
  ELSE 0

\* a filter that drops the first slot of the key and keeps the others
FilterFirst(slots, date, time) ==
  LET i == FindIndex(slots, date, time)
  IN IF i = 0 THEN slots
     ELSE SubSeq(slots, 1, i - 1) \o SubSeq(slots, i + 1, Len(slots))

\* data.slots.filter(s => !(s.date === date && s.time === time))
RECURSIVE Filter(_, _, _)
Filter(slots, date, time) ==
  IF slots = <<>> THEN <<>>
  ELSE IF Matches(Head(slots), date, time)
       THEN Filter(Tail(slots), date, time)
       ELSE <<Head(slots)>> \o Filter(Tail(slots), date, time)

\* an add-slot that replaces the slots of the key by the new Free slot
PushReplace(slots, date, time) ==
  Append(Filter(slots, date, time), Doc(0, date, time, FALSE, {}))

\* an add-slot that stores the new slot booked
PushBooked(slots, date, time) == Append(slots, Doc(0, date, time, TRUE, {}))

\* data.slots.push({ date, time, booked: false, client: null })
Push(slots, date, time) == Append(slots, Doc(0, date, time, FALSE, {}))

\* GET /calendar
FileCalendar(r) ==
  /\ variant = "file" /\ Idle(r)
  /\ Respond(r, Slots)
  /\ UNCHANGED <<variant, db, file>>

\* POST /create-checkout: stripe.checkout.sessions.create straight away
FileCreateCheckoutReq(r, date, time, c) ==
  /\ variant = "file" /\ Idle(r)
  /\ Await(r, "co_stripe", Body(date, time, c), NoSlot)
  /\ UNCHANGED <<variant, db, file>>

FileCreateCheckout(r) ==
  \E date \in BodyDates, time \in Times, c \in Intents :
    FileCreateCheckoutReq(r, date, time, c)

\* the provider answers with a session, or the call throws
FileCheckoutSession(r) ==
  /\ variant = "file" /\ pc[r] = "co_stripe"
  /\ \E ok \in BOOLEAN : Respond(r, IF ok THEN Url ELSE StripeError)
  /\ UNCHANGED <<variant, db, file>>

\* POST /confirm: read, find, check, mark booked, rewrite the file, and
\* hand the mail to the transport, with no await in between
FileConfirmReq(r, date, time, c) ==
  /\ variant = "file" /\ Idle(r)
  /\ LET data == readData
         i == FindIndex(data, date, time)
     IN IF i = 0 \/ Taken(data[i])
        THEN /\ file' = file
             /\ Respond(r, Unavailable)
        ELSE /\ writeData([data EXCEPT ![i] = Booked(data[i], c)])
             /\ IF Falsy(c.email)
                THEN Respond(r, Success)
                ELSE Await(r, "cf_mail", Body(date, time, c), Booked(data[i], c))
  /\ UNCHANGED <<variant, db>>

FileConfirm(r) ==
  \E date \in BodyDates, time \in Times, c \in Intents : FileConfirmReq(r, date, time, c)

\* mailer.sendMail settles: the transport took the mail, or it failed
FileSendMail(r) ==
  /\ variant = "file" /\ pc[r] = "cf_mail"
  /\ \E ok \in BOOLEAN :
       Await(r, IF ok THEN "cf_sent" ELSE "cf_mailerr", body[r], slot[r])
  /\ UNCHANGED <<variant, db, file>>

\* the handler resumes after sendMail and sends the response
FileConfirmDone(r) ==
  /\ variant = "file" /\ pc[r] \in {"cf_sent", "cf_mailerr"}
  /\ Respond(r, AfterMail(pc[r]))
  /\ UNCHANGED <<variant, db, file>>

\* GET /admin/reservations
FileReservationsReq(r, auth) ==
  /\ variant = "file" /\ Idle(r)
  /\ Respond(r, IF Unauthorized(auth) THEN Denied ELSE Slots)
  /\ UNCHANGED <<variant, db, file>>

FileReservations(r) == \E auth \in Auths : FileReservationsReq(r, auth)

\* POST /admin/add-slot: the gate, then push and rewrite
FileAddSlotReq(r, auth, date, time) ==
  /\ variant = "file" /\ Idle(r)
  /\ IF Unauthorized(auth)
     THEN /\ file' = file
          /\ Respond(r, Denied)
     ELSE /\ Len(file) < MaxSlots
          /\ writeData(Push(readData, date, time))
          /\ Respond(r, Success)
  /\ UNCHANGED <<variant, db>>

FileAddSlot(r) ==
  \E auth \in Auths, date \in BodyDates, time \in Times : FileAddSlotReq(r, auth, date, time)

\* POST /admin/delete-slot: the gate, then filter and rewrite
FileDeleteSlotReq(r, auth, date, time) ==
  /\ variant = "file" /\ Idle(r)
  /\ IF Unauthorized(auth)
     THEN /\ file' = file
          /\ Respond(r, Denied)
     ELSE /\ writeData(Filter(readData, date, time))
          /\ Respond(r, Success)
  /\ UNCHANGED <<variant, db>>

FileDeleteSlot(r) ==
  \E auth \in Auths, date \in BodyDates, time \in Times : FileDeleteSlotReq(r, auth, date, time)

\* what GET /calendar and GET /admin/reservations send
ListSlots == IF variant = "store" THEN SortedSlots(db) ELSE readData

\* the persisted slots of either variant, as a set
Stored == IF variant = "store" THEN db ELSE {file[i] : i \in 1..Len(file)}

(***************************************************************************)
(* Specifications.                                                         *)
(***************************************************************************)
\* requests arrive at any time and handlers interleave at their awaits
Next ==
  \E r \in Reqs :
    \/ Calendar(r) \/ CalendarFind(r)
    \/ CreateCheckout(r) \/ CheckoutSession(r)
    \/ Confirm(r) \/ ConfirmFind(r) \/ ConfirmSave(r) \/ SendMail(r) \/ ConfirmDone(r)
    \/ Reservations(r) \/ ReservationsFind(r)
    \/ AddSlot(r) \/ AddSlotCreate(r)
    \/ DeleteSlot(r) \/ DeleteSlotDelete(r)
    \/ FileCalendar(r)
    \/ FileCreateCheckout(r) \/ FileCheckoutSession(r)
    \/ FileConfirm(r) \/ FileSendMail(r) \/ FileConfirmDone(r)
    \/ FileReservations(r) \/ FileAddSlot(r) \/ FileDeleteSlot(r)

Spec == Init /\ [][Next]_vars

\* requests run one after another: a request is taken only when no
\* handler is suspended
Quiet == \A r \in Reqs : Idle(r)

SeqNext ==
  \E r \in Reqs :
    /\ \A q \in Reqs \ {r} : Idle(q)
    /\ \/ Calendar(r) \/ CalendarFind(r)
       \/ CreateCheckout(r) \/ CheckoutSession(r)
       \/ Confirm(r) \/ ConfirmFind(r) \/ ConfirmSave(r) \/ SendMail(r) \/ ConfirmDone(r)
       \/ Reservations(r) \/ ReservationsFind(r)
       \/ AddSlot(r) \/ AddSlotCreate(r)
       \/ DeleteSlot(r) \/ DeleteSlotDelete(r)
       \/ FileCalendar(r)
       \/ FileCreateCheckout(r) \/ FileCheckoutSession(r)
       \/ FileConfirm(r) \/ FileSendMail(r) \/ FileConfirmDone(r)
       \/ FileReservations(r) \/ FileAddSlot(r) \/ FileDeleteSlot(r)

SpecSeq == Init /\ [][SeqNext]_vars

\* the race of /confirm in the store variant: every connection has just
\* sent POST /confirm for the same slot, which is stored and Free
RaceInit ==
  /\ variant = "store"
  /\ file = <<>>
  /\ \E date \in Dates, time \in Times :
       /\ db = {Doc(1, date, time, FALSE, {})}
       /\ body \in [Reqs -> {Body(date, time, c) : c \in Intents}]
  /\ pc = [r \in Reqs |-> "cf_find"]
  /\ slot = [r \in Reqs |-> NoSlot]
  /\ resp = [r \in Reqs |-> NoResp]

RaceNext ==
  \E r \in Reqs : ConfirmFind(r) \/ ConfirmSave(r) \/ SendMail(r) \/ ConfirmDone(r)

SpecRace == RaceInit /\ [][RaceNext]_vars

(***************************************************************************)
(* Downstream failures: the awaited store call rejects (error or timeout), *)
(* readFileSync / writeFileSync throws.  A failure of the payment provider *)
(* is the ok = FALSE case of CheckoutSession, a failure of the mail        *)
(* transport the "cf_mailerr" case of SendMail.                            *)
(***************************************************************************)
CalendarError == Resp(500, "Erreur calendrier")

\* what express's own error handler sends for an error passed to it
ServerError == Resp(500, "Internal Server Error")

\* an error leaves a handler that has no try/catch around it. Thrown from a
\* synchronous handler it is caught by the router and answered 500; as the
\* rejection of an async handler it is answered 500 by a router that
\* awaits its handlers and by no response at all by one that does not
Uncaught(r, async) ==
  \/ Respond(r, ServerError)
  \/ async /\ Await(r, "hung", NoBody, NoSlot)

\* GET /calendar: Slot.find() rejects, the catch answers 500
CalendarFails(r) ==
  /\ variant = "store" /\ pc[r] = "cal_find"
  /\ Respond(r, CalendarError)
  /\ UNCHANGED <<variant, db, file>>

\* POST /confirm: findOne or save rejects, the outer catch answers 500
ConfirmFails(r) ==
  /\ variant = "store" /\ pc[r] \in {"cf_find", "cf_save"}
  /\ Respond(r, ConfirmError)
  /\ UNCHANGED <<variant, db, file>>

\* GET /admin/reservations: Slot.find() rejects, nothing catches it
ReservationsFails(r) ==
  /\ variant = "store" /\ pc[r] = "ar_find"
  /\ Uncaught(r, TRUE)
  /\ UNCHANGED <<variant, db, file>>

\* POST /admin/add-slot: Slot.create rejects for a reason that is not the
\* unique index; the catch answers what it answers for a duplicate
AddSlotFails(r) ==
  /\ variant = "store" /\ pc[r] = "as_create"
  /\ Respond(r, AlreadyExists)
  /\ UNCHANGED <<variant, db, file>>

\* POST /admin/delete-slot: deleteOne rejects, nothing catches it
DeleteSlotFails(r) ==
  /\ variant = "store" /\ pc[r] = "ad_delete"
  /\ Uncaught(r, TRUE)
  /\ UNCHANGED <<variant, db, file>>

\* file variant: readData throws in one of the synchronous handlers
\* (/calendar and the admin routes behind their gate)
FileReadFails(r) ==
  /\ variant = "file" /\ Idle(r)
  /\ Uncaught(r, FALSE)
  /\ UNCHANGED <<variant, db, file>>

\* file variant: readData throws in /confirm, an async handler with no
\* try/catch around it
FileConfirmFails(r) ==
  /\ variant = "file" /\ Idle(r)
  /\ Uncaught(r, TRUE)
  /\ UNCHANGED <<variant, db, file>>

FaultNext ==
  \E r \in Reqs :
    \/ CalendarFails(r) \/ ConfirmFails(r) \/ ReservationsFails(r)
    \/ AddSlotFails(r) \/ DeleteSlotFails(r)
    \/ FileReadFails(r) \/ FileConfirmFails(r)

\* the service with its downstream dependencies failing at any call
SpecFault == Init /\ [][Next \/ FaultNext]_vars

(***************************************************************************)
(* Properties.                                                             *)
(***************************************************************************)
\* slot s is the slot of key (date, time)
HasKey(s, date, time) == s.date = date /\ s.time = time

\* the slot a lookup by (date, time) finds among the persisted slots S is
\* Free: in data.json that is the first slot with the key
FreeAt(date, time) ==
  IF variant = "store"
  THEN \E d \in db : HasKey(d, date, time) /\ ~d.booked
  ELSE \E i \in 1..Len(file) :
         /\ HasKey(file[i], date, time) /\ ~file[i].booked
         /\ \A j \in 1..(i - 1) : ~HasKey(file[j], date, time)

\* no persisted slot has the key (date, time)
NoSlotAt(date, time) == \A s \in Stored : ~HasKey(s, date, time)

\* some persisted slot of key b.date, b.time is booked for the client of b
BookedFor(S, b) ==
  \E s \in S : HasKey(s, b.date, b.time) /\ s.booked /\ s.client = {b.client}

\* connection r takes a step out of the suspension point `at`
Leaves(r, at) == pc[r] = at /\ pc'[r] # at

\* the step is one of connection r, idle so far: it takes a request
Takes(r) == Idle(r) /\ \A q \in Reqs \ {r} : pc'[q] = pc[q] /\ resp'[q] = resp[q]

SlotUnavailable == [status |-> 400, body |-> "Creneau indisponible"]
Confirmed == [status |-> 200, body |-> "success"]

\* C1: store variant, NumReq concurrent POST /confirm on the same stored
\* Free slot: once all have answered, exactly one answered 200
\* {success:true} and every other one 400 SlotUnavailable.
C1_ExactlyOneSuccess ==
  Quiet =>
    \E w \in Reqs :
      /\ resp[w] = Confirmed
      /\ \A r \in Reqs \ {w} : resp[r] = SlotUnavailable

\* C2: store variant: once a document is stored booked with a client, no
\* step changes the client stored in that document (the write of /confirm
\* is a compare-and-swap on booked false -> true).
C2_FirstWriteWins ==
  [][\A d \in db : d.booked =>
       \A e \in db' : e.id = d.id => e.booked /\ e.client = d.client]_vars

\* what holds of a suspended /confirm while no other request runs
C3_Held(r) ==
  \* the document a suspended /confirm holds is still stored, still Free
  /\ pc[r] = "cf_save" =>
       \E d \in db : d.id = slot[r].id /\ ~d.booked /\ HasKey(d, body[r].date, body[r].time)
  \* a /confirm that waits for the mail has its booking persisted
  /\ pc[r] \in {"cf_mail", "cf_sent", "cf_mailerr"} => BookedFor(Stored, body[r])

\* what each step of a /confirm does while no other request runs
C3_Step(r) ==
  /\ Leaves(r, "cf_find") =>
       IF FreeAt(body[r].date, body[r].time)
       THEN pc'[r] = "cf_save" /\ db' = db
       ELSE resp'[r] = SlotUnavailable /\ db' = db
  /\ Leaves(r, "cf_save") =>
       /\ BookedFor(db', body[r])
       /\ \A d \in db : ~HasKey(d, body[r].date, body[r].time) => d \in db'
       /\ resp'[r] = Confirmed \/ pc'[r] = "cf_mail"
  /\ pc[r] \in {"cf_sent", "cf_mailerr"} /\ pc'[r] = "idle" =>
       /\ resp'[r] = Confirmed
       /\ BookedFor(Stored', body[r])
  /\ Takes(r) => \A date \in BodyDates, time \in Times, c \in Intents :
       FileConfirmReq(r, date, time, c) =>
         IF FreeAt(date, time)
         THEN /\ BookedFor(Stored', Body(date, time, c))
              /\ Len(file') = Len(file)
              /\ \A i \in 1..Len(file) : ~HasKey(file[i], date, time) => file'[i] = file[i]
              /\ resp'[r] = Confirmed \/ pc'[r] = "cf_mail"
         ELSE resp'[r] = SlotUnavailable /\ file' = file

\* C3: requests run one after another. A confirm on a Free slot books it
\* for the intent's client and answers success; a confirm on a key whose
\* slot is booked (or missing) answers 400 SlotUnavailable and leaves the
\* persisted slots unchanged.
C3_SequentialConfirm ==
  /\ [](\A r \in Reqs : C3_Held(r))
  /\ [][\A r \in Reqs : C3_Step(r)]_vars

\* a second confirm was refused while the slot stays booked for the first
C3_Witness ==
  /\ Quiet
  /\ \E r \in Reqs : resp[r] = SlotUnavailable
  /\ \E r \in Reqs : resp[r] = Confirmed
  /\ \E s \in Stored : s.booked /\ s.client = {Ana}

\* C4: no two persisted slots have the same (date, time).
C4_UniqueKey ==
  /\ \A d, e \in db : HasKey(d, e.date, e.time) => d = e
  /\ \A i, j \in 1..Len(file) : HasKey(file[i], file[j].date, file[j].time) => i = j

\* C5: an authorized add-slot whose (date, time) is the key of a persisted
\* slot answers 400 DuplicateKey and leaves the persisted slots unchanged.
C5_DuplicateRejected ==
  [][\A r \in Reqs :
       /\ Leaves(r, "as_create") /\ ~NoSlotAt(body[r].date, body[r].time) =>
            resp'[r] = [status |-> 400, body |-> "Creneau deja existant"] /\ db' = db
       /\ Takes(r) => \A date \in BodyDates, time \in Times :
            FileAddSlotReq(r, AdminPassword, date, time) /\ ~NoSlotAt(date, time) =>
              resp'[r] = [status |-> 400, body |-> "Creneau deja existant"] /\ file' = file]_vars

\* C6: every persisted slot is booked if and only if it has a client.
C6_BookedIffClient == \A s \in Stored : s.booked <=> s.client # {}

\* a booked slot and a Free slot are persisted side by side
C6_Witness ==
  /\ \E s \in Stored : s.booked /\ s.client # {}
  /\ \E s \in Stored : ~s.booked

\* C7: a create-checkout for a slot that is missing or booked answers
\* SlotUnavailable and does not call the payment provider: a session is
\* asked of the provider only for a slot that is stored and Free.
C7_SessionOnlyForFreeSlot ==
  [][\A r \in Reqs :
       /\ Idle(r) /\ pc'[r] = "co_stripe" => FreeAt(body'[r].date, body'[r].time)
       /\ Takes(r) => \A date \in Dates, time \in Times, c \in Intents :
            /\ CreateCheckoutReq(r, date, time, c) \/ FileCreateCheckoutReq(r, date, time, c)
            /\ ~FreeAt(date, time)
            => resp'[r] = SlotUnavailable]_vars

\* 401 at once: no store call is issued, the persisted slots are unchanged
C8_Refused(r) ==
  /\ resp'[r] = [status |-> 401, body |-> "Acces refuse"]
  /\ pc'[r] = "idle"
  /\ db' = db /\ file' = file

\* C8: an admin request (reservations, add-slot, delete-slot) whose
\* authorization header is absent or is not the configured secret answers
\* 401 at once, with no store call issued and the persisted slots
\* unchanged, whatever its body and whatever the slots.
C8_AdminGate ==
  [][\A r \in Reqs : Takes(r) =>
       \A auth \in Auths \ {AdminPassword} :
         IF variant = "store"
         THEN /\ ReservationsReq(r, auth) => C8_Refused(r)
              /\ \A date \in BodyDates, time \in BodyTimes :
                   AddSlotReq(r, auth, date, time) \/ DeleteSlotReq(r, auth, date, time)
                   => C8_Refused(r)
         ELSE /\ FileReservationsReq(r, auth) => C8_Refused(r)
              /\ \A date \in BodyDates, time \in Times :
                   FileAddSlotReq(r, auth, date, time) \/ FileDeleteSlotReq(r, auth, date, time)
                   => C8_Refused(r)]_vars

\* a request was refused while slots are persisted, one of them booked
C8_Witness ==
  /\ \E r \in Reqs : resp[r] = [status |-> 401, body |-> "Acces refuse"]
  /\ \E s \in Stored : s.booked

\* C9: once /confirm has handed the mail to the transport, a transport
\* failure leaves the persisted slots as they are and the handler still
\* answers 200 {success:true}.
C9_MailFailureSwallowed ==
  [][\A r \in Reqs :
       /\ pc[r] = "cf_mail" /\ pc'[r] = "cf_mailerr" => db' = db /\ file' = file
       /\ Leaves(r, "cf_mailerr") =>
            resp'[r] = Confirmed /\ pc'[r] = "idle" /\ db' = db /\ file' = file]_vars

\* the mail of a persisted booking has failed
C9_Witness == \E r \in Reqs : pc[r] = "cf_mailerr" /\ BookedFor(Stored, body[r])

\* the refusal of a confirm for a key whose slot is missing or booked
C10_Refusal(r, date, time) ==
  NoSlotAt(date, time) \/ ~FreeAt(date, time) =>
    /\ resp'[r] = SlotUnavailable
    /\ pc'[r] = "idle"
    /\ db' = db /\ file' = file

\* C10: a confirm for a key with no persisted slot answers 400 with the
\* status and body of a confirm on a booked slot, hands no mail to the
\* transport and leaves the persisted slots unchanged (so creates none).
C10_MissingSlot ==
  [][\A r \in Reqs :
       /\ Leaves(r, "cf_find") => C10_Refusal(r, body[r].date, body[r].time)
       /\ Takes(r) => \A date \in BodyDates, time \in Times, c \in Intents :
            FileConfirmReq(r, date, time, c) => C10_Refusal(r, date, time)]_vars

\* a confirm was refused although no persisted slot is booked
C10_Witness ==
  /\ \E r \in Reqs : resp[r] = SlotUnavailable
  /\ Stored # {}
  /\ \A s \in Stored : ~s.booked

\* none of the slots S has the key (date, time)
NoneOfKey(S, date, time) == \A s \in S : ~HasKey(s, date, time)

\* slot s has a key other than (date, time)
OtherKey(s, date, time) == ~HasKey(s, date, time)

\* C11: an authorized delete-slot answers success and removes exactly the
\* persisted slots of its key: none when the key is not stored, every slot
\* of another key is kept as it is (in data.json, in its order), and no
\* slot of the key is left, so that the same delete again changes nothing.
C11_DeleteSlot ==
  [][\A r \in Reqs :
       /\ Leaves(r, "ad_delete") =>
            /\ resp'[r] = Confirmed
            /\ db' = {d \in db : OtherKey(d, body[r].date, body[r].time)}
            /\ NoneOfKey(Stored', body[r].date, body[r].time)
       /\ variant = "file" /\ Takes(r) => \A date \in BodyDates, time \in Times :
            FileDeleteSlotReq(r, AdminPassword, date, time) =>
              /\ resp'[r] = Confirmed
              /\ file' = SelectSeq(file, LAMBDA s : OtherKey(s, date, time))
              /\ NoneOfKey(Stored', date, time)]_vars

\* the first of two stored documents was deleted and the second is kept
C11_Witness ==
  /\ variant = "store" /\ Quiet
  /\ \E d \in db : d.id = 2
  /\ \A d \in db : d.id # 1

\* the listing q holds exactly one slot of key (date, time), Free, no client
ExactlyOneFree(q, date, time) ==
  \E i \in DOMAIN q :
    /\ HasKey(q[i], date, time) /\ ~q[i].booked /\ q[i].client = {}
    /\ \A j \in DOMAIN q : HasKey(q[j], date, time) => j = i

\* C12: after an authorized add-slot that answers success for (date, time),
\* the slot listing holds exactly one slot of that key, and that slot has
\* booked false and no client.
C12_AddedOnce ==
  [][\A r \in Reqs :
       /\ Leaves(r, "as_create") /\ resp'[r] = Confirmed =>
            ExactlyOneFree(ListSlots', body[r].date, body[r].time)
       /\ Takes(r) => \A date \in BodyDates, time \in Times :
            FileAddSlotReq(r, AdminPassword, date, time) /\ resp'[r] = Confirmed =>
              ExactlyOneFree(ListSlots', date, time)]_vars

\* the listing q is in ascending order of date, then of time
Ascending(q) ==
  \A i, j \in DOMAIN q :
    i < j => \/ Rank(q[i].date) < Rank(q[j].date)
             \/ q[i].date = q[j].date /\ Rank(q[i].time) <= Rank(q[j].time)

\* C13: the slots GET /calendar and GET /admin/reservations send are in
\* ascending order of date and then of time, whatever the order the slots
\* were added in.
C13_ListingSorted ==
  [][\A r \in Reqs :
       /\ Leaves(r, "cal_find") \/ Leaves(r, "ar_find") => Ascending(ListSlots)
       /\ Takes(r) /\ (FileCalendar(r) \/ FileReservationsReq(r, AdminPassword)) =>
            Ascending(ListSlots)]_vars

\* C14: an authorized add-slot whose date or time is missing or empty
\* answers 400 and leaves the persisted slots unchanged.
C14_AddSlotInvalidInput ==
  [][\A r \in Reqs : Takes(r) =>
       \A date \in BodyDates, time \in BodyTimes :
         /\ Falsy(date) \/ Falsy(time)
         /\ AddSlotReq(r, AdminPassword, date, time) \/ FileAddSlotReq(r, AdminPassword, date, time)
         => resp'[r].status = 400 /\ pc'[r] = "idle" /\ db' = db /\ file' = file]_vars

\* C15: a create-checkout in which date, time, firstName, lastName or
\* service is missing or empty answers 400 and the payment provider is not
\* called; a missing email alone is not a reason to refuse.
C15_CheckoutInvalidInput ==
  [][\A r \in Reqs : Takes(r) =>
       \A date \in BodyDates, time \in BodyTimes, c \in Intents :
         CreateCheckoutReq(r, date, time, c) \/ FileCreateCheckoutReq(r, date, time, c) =>
           IF \/ date \in {Undef, ""} \/ time \in {Undef, ""}
              \/ c.firstName \in {Undef, ""} \/ c.lastName \in {Undef, ""}
              \/ c.service \in {Undef, ""}
           THEN resp'[r].status = 400 /\ pc'[r] = "idle"
           ELSE pc'[r] = "co_stripe"]_vars

\* the number of booked slots of data.json that are equal to s
BookedCopies(slots, s) == Cardinality({i \in DOMAIN slots : slots[i] = s /\ slots[i].booked})

\* the step is the completion of an authorized delete-slot for the key of s
DeletesKeyOf(s) ==
  \/ \E r \in Reqs : Leaves(r, "ad_delete") /\ HasKey(s, body[r].date, body[r].time)
  \/ \E r \in Reqs : Takes(r) /\ FileDeleteSlotReq(r, AdminPassword, s.date, s.time)

\* C16: booked is one-way. A persisted slot that is booked is, after any
\* step, still persisted booked and with a client, unless the step is a
\* delete-slot of its key, which removes it; a delete-slot removes the
\* slots of its key whether they are Free or booked.
C16_BookedOneWay ==
  [][/\ \A d \in db : d.booked =>
          \/ \E e \in db' : e.id = d.id /\ e.booked /\ e.client # {}
          \/ DeletesKeyOf(d) /\ \A e \in db' : e.id # d.id
     /\ \A i \in DOMAIN file : file[i].booked =>
          \/ /\ file[i].client # {}
             /\ BookedCopies(file', file[i]) >= BookedCopies(file, file[i])
          \/ DeletesKeyOf(file[i]) /\ NoneOfKey(Stored', file[i].date, file[i].time)
     /\ \A s \in Stored : DeletesKeyOf(s) => s \notin Stored']_vars

\* a booked slot was deleted: the /confirm that booked it still waits for
\* its mail and nothing is persisted any more
C16_Witness ==
  /\ Stored = {}
  /\ \E r \in Reqs : pc[r] = "cf_mail" /\ slot[r].booked

\* C17: /confirm hands a mail to the transport only after it has persisted
\* its slot booked for its client, and only when the intent's email is not
\* empty: never before the write, never when it answers SlotUnavailable.
C17_MailAfterBooking ==
  [][\A r \in Reqs :
       pc[r] # "cf_mail" /\ pc'[r] = "cf_mail" =>
         /\ body'[r].client.email \notin {Undef, ""}
         /\ BookedFor(Stored', body'[r])
         /\ resp'[r] = NoResp
         /\ variant = "store" => pc[r] = "cf_save" /\ slot[r].id \in {d.id : d \in db'}
         /\ variant = "file" => Idle(r) /\ FreeAt(body'[r].date, body'[r].time)]_vars

\* a mail is with the transport for a booking that is persisted
C17_Witness ==
  \E r \in Reqs :
    /\ pc[r] = "cf_mail" /\ body[r].client.email = "a@b.com"
    /\ BookedFor(Stored, body[r])

\* the step answers connection r with a server error
Answers5xx(r) == pc'[r] = "idle" /\ resp'[r].status \in 500..599

\* C18: a downstream failure (store read or write error, payment provider
\* error) is answered with a 5xx response, never with a 4xx and never with
\* no response: in /confirm, /calendar, /create-checkout, and in the admin
\* routes reservations, add-slot and delete-slot.
C18_DownstreamFailure5xx ==
  [][\A r \in Reqs :
       /\ CalendarFails(r) \/ ConfirmFails(r) => Answers5xx(r)
       /\ ReservationsFails(r) \/ DeleteSlotFails(r) => Answers5xx(r)
       /\ AddSlotFails(r) /\ NoSlotAt(body[r].date, body[r].time) => Answers5xx(r)
       /\ Takes(r) /\ (FileReadFails(r) \/ FileConfirmFails(r)) => Answers5xx(r)
       /\ Leaves(r, "co_stripe") /\ resp'[r] # [status |-> 200, body |-> "url"] =>
            Answers5xx(r)]_vars

\* C19: file variant. /confirm reads data.json, checks the slot and
\* rewrites the file in one step: it succeeds exactly when the slot it finds
\* is Free, and the slot is booked for its client as soon as the step is
\* over, so that of the confirms racing for a slot one succeeds and the
\* others answer 400. While a confirm waits for the mail it writes
\* nothing: no write of another request is lost.
C19_FileConfirmAtomic ==
  [][\A r \in Reqs :
       /\ variant = "file" /\ Takes(r) =>
            \A date \in BodyDates, time \in Times, c \in Intents :
            FileConfirmReq(r, date, time, c) =>
              IF FreeAt(date, time)
              THEN /\ ~FreeAt(date, time)'
                   /\ BookedFor(Stored', Body(date, time, c))
                   /\ resp'[r] = Confirmed \/ pc'[r] = "cf_mail"
              ELSE resp'[r] = SlotUnavailable /\ pc'[r] = "idle" /\ file' = file
       /\ variant = "file" /\ pc[r] \in {"cf_mail", "cf_sent", "cf_mailerr"} /\ pc'[r] # pc[r] =>
            /\ file' = file
            /\ pc'[r] = "idle" => resp'[r] = Confirmed]_vars

\* a confirm was refused while the confirm that booked the slot still
\* waits for its mail
C19_Witness ==
  /\ variant = "file"
  /\ \E r, q \in Reqs :
       /\ pc[r] = "cf_mail" /\ BookedFor(Stored, body[r])
       /\ resp[q] = SlotUnavailable

\* the step books a slot that was not stored booked before
BooksASlot == \E s \in Stored' : s.booked /\ s \notin Stored

\* the step is one of /confirm persisting its booking
ConfirmWrites ==
  \/ \E r \in Reqs : Leaves(r, "cf_save")
  \/ \E r \in Reqs : Takes(r) /\ \E date \in BodyDates, time \in Times, c \in Intents :
       FileConfirmReq(r, date, time, c)

\* C20: create-checkout leaves the persisted slots unchanged in each of its
\* outcomes and calls the payment provider at most once; a slot becomes
\* booked through /confirm only, and whether a confirm is refused depends
\* on the persisted slot of its key alone.
C20_CheckoutFrame ==
  [][/\ \A r \in Reqs :
          /\ Idle(r) /\ pc'[r] = "co_stripe" => db' = db /\ file' = file
          /\ Takes(r) /\ resp'[r] = [status |-> 400, body |-> "Donnees manquantes"] =>
               db' = db /\ file' = file
          /\ Leaves(r, "co_stripe") =>
               /\ db' = db /\ file' = file
               /\ pc'[r] = "idle" /\ resp'[r].status \in {200, 500}
          /\ Leaves(r, "cf_find") =>
               (resp'[r] = SlotUnavailable <=> ~FreeAt(body[r].date, body[r].time))
          /\ variant = "file" /\ Takes(r) =>
               \A date \in BodyDates, time \in Times, c \in Intents :
                 FileConfirmReq(r, date, time, c) =>
                   (resp'[r] = SlotUnavailable <=> ~FreeAt(date, time))
     /\ BooksASlot => ConfirmWrites]_vars

\* a payment session was created and no persisted slot is booked
C20_Witness ==
  /\ \E r \in Reqs : resp[r] = [status |-> 200, body |-> "url"]
  /\ Stored # {}
  /\ \A s \in Stored : ~s.booked

====
